---- MODULE Spec2Model ----
(***************************************************************************)
(* Model of serialize.c (SWI-Prolog binary serialisation foreign library): *)
(* write_int32/2, read_int32/2, write_atom/2, read_atom/2, write_float/2   *)
(* and read_float/2 acting on one stream.                                  *)
(*                                                                         *)
(* The stream is seen as a pipe: `wire` holds the bytes that were written  *)
(* (or that a foreign producer left there) and have not been read yet,     *)
(* `room` is the number of bytes the device still accepts before a write   *)
(* fails, `encoding` is the IOSTREAM's encoding field.  The stream is a    *)
(* binary stream (no newline translation).  Calls are sequential: every    *)
(* action is one complete call of a foreign predicate.                     *)
(*                                                                         *)
(* The SWI-Stream primitives (Sfwrite, Sfread, Sputc, Sgetc, Sputcode,     *)
(* Sgetcode) and malloc are modelled at the places where the source calls  *)
(* them.  Building the exception term itself is assumed to succeed, and the *)
(* output argument of a read predicate is an unbound variable.  malloc may  *)
(* return NULL for any request.                                            *)
(***************************************************************************)
EXTENDS Integers, Naturals, Sequences, FiniteSets, TLC

VARIABLES
  wire,       \* unread bytes of the stream, oldest first
  room,       \* bytes the stream still accepts before writing fails
  encoding,   \* s->encoding
  bigendian,  \* TRUE iff the build defines WORDS_BIGENDIAN
  nwrites,    \* number of write calls made so far
  last,       \* outcome of the last call
  bufLog,     \* what the last call did with its character buffer
  obs,        \* history: what the last call found and did on the stream
  allocFails, \* number of malloc calls that returned NULL so far
  pending,    \* history: values written successfully and not read yet
  aligned     \* history: wire is exactly the encodings of pending, in order

vars == <<wire, room, encoding, bigendian, nwrites, allocFails, last, bufLog,
          obs, pending, aligned>>

-----------------------------------------------------------------------------
(* Bounds of the exploration *)

\* write calls in a behaviour of Spec, SpecInt and SpecFloat
MaxWrites == 2

\* write_atom calls in a behaviour of SpecAtom (texts of up to 1025 characters)
MaxAtomWrites == 1

\* malloc calls that return NULL in a behaviour
MaxAllocFails == 1

-----------------------------------------------------------------------------
(* Program constants *)

BufSize == 1024

INT_MAX == 2147483647
INT_MIN == (-2147483647) - 1

Encodings == {"ENC_OCTET", "ENC_ISO_LATIN_1", "ENC_UTF8"}

EOF == -1

-----------------------------------------------------------------------------
(* Small helpers *)

Min(a, b) == IF a < b THEN a ELSE b

Take(q, n) == SubSeq(q, 1, Min(n, Len(q)))

Drop(q, n) == SubSeq(q, Min(n, Len(q)) + 1, Len(q))

-----------------------------------------------------------------------------
(* Error terms: error(io_error(Action, Stream), _), error(type_error(      *)
(* Expected, Actual), _), error(resource_error(What), _)                   *)

NoError == [kind |-> "none", arg |-> ""]

io_error(action) == [kind |-> "io_error", arg |-> action]

type_error(expected) == [kind |-> "type_error", arg |-> expected]

resource_error(what) == [kind |-> "resource_error", arg |-> what]

\* PL_get_stream_handle succeeds or type_error(t, "stream") is raised
get_stream_handle_ex(h) ==
  IF h = "stream" THEN [ok |-> TRUE, error |-> NoError]
  ELSE [ok |-> FALSE, error |-> type_error("stream")]

\* PL_get_integer succeeds or type_error(t, "integer") is raised
get_integer_ex(t) ==
  IF t.type = "integer" THEN [ok |-> TRUE, error |-> NoError]
  ELSE [ok |-> FALSE, error |-> type_error("integer")]

\* PL_get_float succeeds or type_error(t, "float") is raised
get_float_ex(t) ==
  IF t.type = "float" THEN [ok |-> TRUE, error |-> NoError]
  ELSE [ok |-> FALSE, error |-> type_error("float")]

-----------------------------------------------------------------------------
(* 32-bit integers *)

\* i>>k & 0xff on a 32-bit two's-complement int (arithmetic shift)
ShiftByte(i, k) == (i \div (2^k)) % 256

\* variant: least significant byte first
Int32Bytes_LittleEndian(i) ==
  <<ShiftByte(i, 0), ShiftByte(i, 8), ShiftByte(i, 16), ShiftByte(i, 24)>>

\* b[0..3] as filled by write_int32
Int32Bytes(i) ==
  <<ShiftByte(i, 24), ShiftByte(i, 16), ShiftByte(i, 8), ShiftByte(i, 0)>>

\* variant: bit 7 of b[0] is dropped
Int32Value_NoSign(b) ==
  ((b[1] % 128) * 16777216) + (b[2] * 65536) + (b[3] * 256) + b[4]

\* v = b[0]<<24 | b[1]<<16 | b[2]<<8 | b[3] in a 32-bit int: bit 7 of b[0]
\* lands in the sign bit
Int32Value(b) ==
  (IF b[1] >= 128 THEN (b[1] - 256) * 16777216 ELSE b[1] * 16777216)
    + (b[2] * 65536) + (b[3] * 256) + b[4]

\* Sfwrite(b, 1, n, s): the bytes that fit are written; returns their number
Sfwrite(b, rm) == [written |-> Take(b, rm), count |-> Min(Len(b), rm)]

\* Sfread(b, 1, n, s): reads up to n bytes; returns the number read
Sfread(w, n) == [bytes |-> Take(w, n), count |-> Min(Len(w), n)]

\* write_int32(s, i, stream): result, bytes appended
write_int32(i, rm) ==
  LET r == Sfwrite(Int32Bytes(i), rm) IN
  IF r.count # 4
    THEN [ok |-> FALSE, error |-> io_error("write"), out |-> r.written]
    ELSE [ok |-> TRUE, error |-> NoError, out |-> r.written]

\* variant: only an empty read is taken as a failure
read_int32_ShortOk(w) ==
  LET r == Sfread(w, 4) IN
  IF r.count = 0
    THEN [ok |-> FALSE, error |-> io_error("read"), set |-> FALSE, v |-> 0,
          used |-> r.count]
    ELSE [ok |-> TRUE, error |-> NoError, set |-> TRUE,
          v |-> Int32Value(r.bytes \o <<0, 0, 0>>), used |-> r.count]

\* read_int32(s, &v, stream): result, value stored through vp, bytes consumed
read_int32(w) ==
  LET r == Sfread(w, 4) IN
  IF r.count # 4
    THEN [ok |-> FALSE, error |-> io_error("read"), set |-> FALSE, v |-> 0,
          used |-> r.count]
    ELSE [ok |-> TRUE, error |-> NoError, set |-> TRUE,
          v |-> Int32Value(r.bytes), used |-> r.count]

-----------------------------------------------------------------------------
(* Characters of an atom: Sputcode/Sgetcode with s->encoding = ENC_UTF8 *)

\* variant: the character is written as one raw byte
Utf8Bytes_Raw(c) == <<c>>

\* the UTF-8 sequence Sputcode emits for code point c (c is an unsigned char
\* here, so one or two bytes)
Utf8Bytes(c) ==
  IF c < 128 THEN <<c>>
  ELSE <<192 + (c \div 64), 128 + (c % 64)>>

\* Sputcode(c, s) with ENC_UTF8: negative result when the stream refuses a byte
Sputcode(c, rm) ==
  LET b == Utf8Bytes(c) IN
  [rc |-> IF Len(b) <= rm THEN c ELSE EOF, written |-> Take(b, rm)]

\* number of continuation bytes announced by lead byte c (0: taken as is)
Utf8Follow(c) ==
  IF c >= 192 /\ c < 224 THEN 1
  ELSE IF c >= 224 /\ c < 240 THEN 2
  ELSE IF c >= 240 /\ c < 248 THEN 3
  ELSE 0

\* payload bits of lead byte c
Utf8Lead(c) ==
  IF c >= 192 /\ c < 224 THEN c % 32
  ELSE IF c >= 224 /\ c < 240 THEN c % 16
  ELSE IF c >= 240 /\ c < 248 THEN c % 8
  ELSE c

RECURSIVE Utf8Cont(_, _, _, _)
\* folds n continuation bytes of w, starting after position p, into code
Utf8Cont(w, p, n, code) ==
  IF n = 0 THEN [c |-> code, pos |-> p]
  ELSE IF p >= Len(w) THEN [c |-> EOF, pos |-> p]
  ELSE Utf8Cont(w, p + 1, n - 1, (code * 64) + (w[p + 1] % 64))

\* variant: the stream is read byte by byte, without decoding
Sgetcode_Octet(w, p) ==
  IF p >= Len(w) THEN [c |-> EOF, pos |-> p]
  ELSE [c |-> w[p + 1], pos |-> p + 1]

\* Sgetcode(s) with ENC_UTF8 reading w after position p: code point or EOF
Sgetcode(w, p) ==
  IF p >= Len(w) THEN [c |-> EOF, pos |-> p]
  ELSE LET c0 == w[p + 1] IN
       IF c0 < 128 THEN [c |-> c0, pos |-> p + 1]
       ELSE Utf8Cont(w, p + 1, Utf8Follow(c0), Utf8Lead(c0))

\* PL_get_nchars(atom, &len, &str, CVT_ATOMIC|CVT_EXCEPTION): the text as
\* ISO Latin-1 characters, or an exception
PL_get_nchars(t) ==
  IF t.type # "atom"
    THEN [ok |-> FALSE, error |-> type_error("atomic"), str |-> <<>>]
  ELSE IF \E k \in 1..Len(t.val) : t.val[k] > 255
    THEN [ok |-> FALSE,
          error |-> [kind |-> "representation_error", arg |-> "encoding"],
          str |-> <<>>]
  ELSE [ok |-> TRUE, error |-> NoError, str |-> t.val]

\* one iteration of the loop of pl_write_atom; st.ok = FALSE once it returned
WriteAtomStep(st, str) ==
  IF ~st.ok THEN st
  ELSE LET r == Sputcode(str[st.i + 1], st.rm) IN
       IF r.rc < 0
         THEN [st EXCEPT !.ok = FALSE, !.out = st.out \o r.written,
                         !.rm = st.rm - Len(r.written)]
         ELSE [st EXCEPT !.i = st.i + 1, !.out = st.out \o r.written,
                         !.rm = st.rm - Len(r.written)]

RECURSIVE WriteAtomLoop(_, _, _)
\* n iterations of the loop of pl_write_atom
WriteAtomLoop(st, str, n) ==
  IF n <= 0 \/ ~st.ok THEN st
  ELSE IF n = 1 THEN WriteAtomStep(st, str)
  ELSE LET h == n \div 2
           m == WriteAtomLoop(st, str, h)
           r == WriteAtomLoop([m EXCEPT !.out = <<>>], str, n - h)
       IN [r EXCEPT !.out = m.out \o r.out]

\* the exit taken when Sputcode fails: restore the encoding, raise
WriteAtomFail(oenc) ==
  [encoding |-> oenc, error |-> io_error("write")]

\* len < sizeof(buf): len is converted to size_t, so a negative len compares
\* as a huge unsigned value
LenBelowBuf(len) == len >= 0 /\ len < BufSize

\* lines 219-222: the fixed buffer, a malloc'ed one, or NULL
ChooseBuffer(len, mallocOk) ==
  IF LenBelowBuf(len) THEN "stack"
  ELSE IF mallocOk THEN "heap"
  ELSE "null"

\* one iteration of the loop of pl_read_atom; st.ok = FALSE once it returned
ReadAtomStep(st, w) ==
  IF ~st.ok THEN st
  ELSE LET g == Sgetcode(w, st.pos) IN
       IF g.c < 0
         THEN [st EXCEPT !.ok = FALSE, !.pos = g.pos]
         ELSE [st EXCEPT !.pos = g.pos, !.out = Append(st.out, g.c % 256)]

RECURSIVE ReadAtomLoop(_, _, _)
\* n iterations of the loop of pl_read_atom (none when len is not positive)
ReadAtomLoop(st, w, n) ==
  IF n <= 0 \/ ~st.ok THEN st
  ELSE IF n = 1 THEN ReadAtomStep(st, w)
  ELSE LET h == n \div 2
           m == ReadAtomLoop(st, w, h)
           r == ReadAtomLoop([m EXCEPT !.out = <<>>], w, n - h)
       IN [r EXCEPT !.out = m.out \o r.out]

\* variant: the encoding is left at ENC_UTF8
ReadAtomFail_NoRestore(oenc, b) ==
  [encoding |-> "ENC_UTF8",
   log |-> IF b # "stack" THEN <<"free">> ELSE <<>>,
   error |-> io_error("read")]

\* variant: the malloc'ed buffer is not freed
ReadAtomFail_Leak(oenc, b) ==
  [encoding |-> oenc, log |-> <<>>, error |-> io_error("read")]

\* the exit taken when Sgetcode yields a negative value: restore the encoding,
\* free a malloc'ed buffer, raise
ReadAtomFail(oenc, b) ==
  [encoding |-> oenc,
   log |-> IF b # "stack" THEN <<"free">> ELSE <<>>,
   error |-> io_error("read")]

\* after the loop: restore the encoding, build the atom from the buffer, free
\* a malloc'ed buffer
ReadAtomFinish(oenc, b) ==
  [encoding |-> oenc,
   log |-> IF b # "stack" THEN <<"unify", "free">> ELSE <<"unify">>]

-----------------------------------------------------------------------------
(* Floats: f is the sequence cl[0..7] of the bytes of the double in memory *)

double_byte_order(be) ==
  IF be THEN <<7, 6, 5, 4, 3, 2, 1, 0>> ELSE <<0, 1, 2, 3, 4, 5, 6, 7>>

\* Sputc(c, fd): the byte, or -1 when the stream refuses it
Sputc(c, rm) == IF rm > 0 THEN c ELSE EOF

\* variant: the byte is returned as a signed char
Sgetc_SignedChar(w, p) ==
  IF p < Len(w) THEN (IF w[p + 1] >= 128 THEN w[p + 1] - 256 ELSE w[p + 1])
  ELSE EOF

\* Sgetc(fd) after position p of w: the byte (0..255), or -1 at end of input
Sgetc(w, p) == IF p < Len(w) THEN w[p + 1] ELSE EOF

RECURSIVE WriteFloatLoop(_, _, _, _, _)
\* the loop of pl_write_float from index i on
WriteFloatLoop(cl, order, i, rm, out) ==
  IF i >= 8 THEN [ok |-> TRUE, out |-> out]
  ELSE IF Sputc(cl[order[i + 1] + 1], rm) < 0 THEN [ok |-> FALSE, out |-> out]
  ELSE WriteFloatLoop(cl, order, i + 1, rm - 1,
                      Append(out, cl[order[i + 1] + 1]))

RECURSIVE ReadFloatLoop(_, _, _, _)
\* the loop of pl_read_float from index i on
ReadFloatLoop(cl, order, i, w) ==
  IF i >= 8 THEN [ok |-> TRUE, cl |-> cl, used |-> i]
  ELSE LET c == Sgetc(w, i) IN
       IF c = -1 THEN [ok |-> FALSE, cl |-> cl, used |-> i]
       ELSE ReadFloatLoop([cl EXCEPT ![order[i + 1] + 1] = c], order, i + 1, w)

-----------------------------------------------------------------------------
(* Arguments of the calls *)

Handles == {"stream", "atom"}

Rep(n, c) == [k \in 1..n |-> c]

IntTerms(is) ==
  {[type |-> "integer", val |-> i] : i \in is}
    \cup {[type |-> "compound", val |-> 0]}

FloatTerms(fs) ==
  {[type |-> "float", val |-> f] : f \in fs}
    \cup {[type |-> "compound", val |-> <<>>]}

AtomTerms(ts) ==
  {[type |-> "atom", val |-> t] : t \in ts}
    \cup {[type |-> "compound", val |-> <<>>]}

Int32s == {0, 1, -1, 16909060, 1024, INT_MAX, INT_MIN, -16777217, 128, -129}

Doubles ==
  { <<0, 0, 0, 0, 0, 0, 240, 63>>,              \* 1.0 on a little-endian host
    <<63, 240, 0, 0, 0, 0, 0, 0>>,              \* 1.0 on a big-endian host
    <<255, 255, 255, 255, 255, 255, 255, 255>>, \* a NaN, every byte 0xFF
    <<1, 0, 0, 0, 0, 0, 248, 127>>,             \* a NaN with a payload
    <<0, 0, 0, 0, 0, 0, 0, 128>>,               \* -0.0 on a little-endian host
    <<1, 2, 3, 4, 5, 6, 7, 255>> }

ShortTexts == { <<>>, <<65>>, <<233, 65>>, <<0, 255, 128, 127>> }

LongTexts == { Rep(BufSize - 1, 97), Rep(BufSize, 97), Rep(BufSize + 1, 97) }

WideTexts == { <<955>> }

\* what a foreign producer may have left on the stream
ForeignInts ==
  { <<0, 0>>, <<255>>, <<0, 0, 1>>, <<128, 0, 0, 0, 7>>,
    <<255, 255, 255, 255, 0, 0, 0, 1, 2>> }

ForeignAtoms ==
  { <<0, 0>>,                     \* fewer than 4 bytes
    <<255, 255, 255, 255, 65>>,   \* length prefix -1
    <<128, 0, 0, 0>>,             \* length prefix INT_MIN
    <<0, 0, 0, 3, 65, 66>>,       \* 3 characters announced, 2 present
    <<0, 0, 4, 0, 65, 66>>,       \* 1024 characters announced, 2 present
    <<0, 0, 0, 2, 65, 195>>,      \* ends in the middle of a UTF-8 sequence
    <<0, 0, 0, 2, 226, 130, 172, 255, 0, 0, 0, 1, 66>> }

-----------------------------------------------------------------------------
(* State *)

NoObs ==
  [avail |-> 0, taken |-> <<>>, produced |-> <<>>, arg |-> <<>>,
   oenc |-> "", hasLen |-> FALSE, len |-> 0, buffer |-> "none",
   capacity |-> 0, stored |-> 0,
   matched |-> FALSE, expValue |-> <<>>, expBytes |-> 0]

\* the state after the stream was opened: either empty with some room for
\* writing, or holding foreign data and closed for writing
InitWith(encs, ends, rooms, wires) ==
  /\ encoding \in encs
  /\ bigendian \in ends
  /\ \/ wire = <<>> /\ room \in rooms
     \/ wire \in wires /\ room = 0
  /\ nwrites = 0
  /\ allocFails = 0
  /\ last = [op |-> "none", status |-> "none", error |-> NoError,
             value |-> <<>>]
  /\ bufLog = <<>>
  /\ obs = NoObs
  /\ pending = <<>>
  /\ aligned = (wire = <<>>)

Init ==
  InitWith({"ENC_OCTET", "ENC_UTF8"}, BOOLEAN, {6, 40},
           {<<0, 0, 0, 1, 65, 1, 2, 3, 4, 5, 6, 7, 8>>})

\* outcome of a call
Outcome(op, status, error, value) ==
  [op |-> op, status |-> status, error |-> error, value |-> value]

\* history of a write call: ok, the value and the bytes it put on the stream
NoteWrite(kind, ok, value, out) ==
  /\ pending' = IF aligned /\ ok
                  THEN Append(pending, [kind |-> kind, value |-> value,
                                        nbytes |-> Len(out)])
                  ELSE pending
  /\ aligned' = (aligned /\ (ok \/ out = <<>>))

\* history of a read call of the given kind that reached the stream
ReadMatches(kind) ==
  aligned /\ pending # <<>> /\ Head(pending).kind = kind

NoteRead(kind, ok) ==
  IF ReadMatches(kind) /\ ok
    THEN pending' = Tail(pending) /\ aligned' = TRUE
    ELSE pending' = <<>> /\ aligned' = FALSE

ObsRead(kind, used) ==
  [NoObs EXCEPT !.avail = Len(wire), !.taken = Take(wire, used),
                !.oenc = encoding,
                !.matched = ReadMatches(kind),
                !.expValue = IF ReadMatches(kind) THEN Head(pending).value
                             ELSE <<>>,
                !.expBytes = IF ReadMatches(kind) THEN Head(pending).nbytes
                             ELSE 0]

ObsWrite(arg, out) ==
  [NoObs EXCEPT !.avail = Len(wire), !.produced = out, !.arg = arg,
                !.oenc = encoding]

\* a call whose stream argument is not a stream: nothing but the exception
BadHandle(op, h) ==
  /\ last' = Outcome(op, "error", get_stream_handle_ex(h).error, <<>>)
  /\ bufLog' = <<>>
  /\ obs' = [NoObs EXCEPT !.oenc = encoding]
  /\ UNCHANGED <<wire, room, encoding, bigendian, pending, aligned>>

-----------------------------------------------------------------------------
(* The foreign predicates *)

pl_write_int32(h, t) ==
  /\ nwrites' = nwrites + 1
  /\ UNCHANGED allocFails
  /\ IF ~get_stream_handle_ex(h).ok THEN BadHandle("write_int32", h)
     ELSE IF ~get_integer_ex(t).ok
       THEN /\ last' = Outcome("write_int32", "error",
                               get_integer_ex(t).error, <<>>)
            /\ bufLog' = <<>>
            /\ obs' = [NoObs EXCEPT !.oenc = encoding]
            /\ UNCHANGED <<wire, room, encoding, bigendian, pending, aligned>>
     ELSE LET r == write_int32(t.val, room) IN
          /\ wire' = wire \o r.out
          /\ room' = room - Len(r.out)
          /\ last' = Outcome("write_int32", IF r.ok THEN "ok" ELSE "error",
                             r.error, <<>>)
          /\ bufLog' = <<>>
          /\ obs' = ObsWrite(<<t.val>>, r.out)
          /\ NoteWrite("int32", r.ok, <<t.val>>, r.out)
          /\ UNCHANGED <<encoding, bigendian>>

pl_read_int32(h) ==
  /\ UNCHANGED <<nwrites, allocFails>>
  /\ IF ~get_stream_handle_ex(h).ok THEN BadHandle("read_int32", h)
     ELSE LET r == read_int32(wire) IN
          /\ wire' = Drop(wire, r.used)
          /\ last' = IF r.ok
                       THEN Outcome("read_int32", "ok", NoError, <<r.v>>)
                       ELSE Outcome("read_int32", "error", r.error, <<>>)
          /\ bufLog' = <<>>
          /\ obs' = ObsRead("int32", r.used)
          /\ NoteRead("int32", r.ok)
          /\ UNCHANGED <<room, encoding, bigendian>>

pl_write_float(h, t) ==
  /\ nwrites' = nwrites + 1
  /\ UNCHANGED allocFails
  /\ IF ~get_stream_handle_ex(h).ok THEN BadHandle("write_float", h)
     ELSE IF ~get_float_ex(t).ok
       THEN /\ last' = Outcome("write_float", "error",
                               get_float_ex(t).error, <<>>)
            /\ bufLog' = <<>>
            /\ obs' = [NoObs EXCEPT !.oenc = encoding]
            /\ UNCHANGED <<wire, room, encoding, bigendian, pending, aligned>>
     ELSE LET r == WriteFloatLoop(t.val, double_byte_order(bigendian), 0,
                                  room, <<>>) IN
          /\ wire' = wire \o r.out
          /\ room' = room - Len(r.out)
          /\ last' = IF r.ok
                       THEN Outcome("write_float", "ok", NoError, <<>>)
                       ELSE Outcome("write_float", "error",
                                    io_error("write"), <<>>)
          /\ bufLog' = <<>>
          /\ obs' = ObsWrite(t.val, r.out)
          /\ NoteWrite("float", r.ok, t.val, r.out)
          /\ UNCHANGED <<encoding, bigendian>>

pl_read_float(h) ==
  /\ UNCHANGED <<nwrites, allocFails>>
  /\ IF ~get_stream_handle_ex(h).ok THEN BadHandle("read_float", h)
     ELSE LET r == ReadFloatLoop(<<0, 0, 0, 0, 0, 0, 0, 0>>,
                                 double_byte_order(bigendian), 0, wire) IN
          /\ wire' = Drop(wire, r.used)
          /\ last' = IF r.ok
                       THEN Outcome("read_float", "ok", NoError, r.cl)
                       ELSE Outcome("read_float", "error",
                                    io_error("read"), <<>>)
          /\ bufLog' = <<>>
          /\ obs' = ObsRead("float", r.used)
          /\ NoteRead("float", r.ok)
          /\ UNCHANGED <<room, encoding, bigendian>>

\* line 271: the encoding after the loop of pl_write_atom completed
WriteAtomDone(oenc) == [encoding |-> oenc]

pl_write_atom(h, t) ==
  /\ nwrites' = nwrites + 1
  /\ UNCHANGED allocFails
  /\ IF ~get_stream_handle_ex(h).ok THEN BadHandle("write_atom", h)
     ELSE IF ~PL_get_nchars(t).ok
       THEN /\ last' = Outcome("write_atom", "error", PL_get_nchars(t).error,
                               <<>>)
            /\ bufLog' = <<>>
            /\ obs' = [NoObs EXCEPT !.oenc = encoding]
            /\ UNCHANGED <<wire, room, encoding, bigendian, pending, aligned>>
     ELSE LET str == PL_get_nchars(t).str
              len == Len(str)
              oenc == encoding
              wi == write_int32(len, room)
              st == WriteAtomLoop([i |-> 0, out |-> <<>>,
                                   rm |-> room - Len(wi.out), ok |-> TRUE],
                                  str, len)
              out == IF wi.ok THEN wi.out \o st.out ELSE wi.out
              ok == wi.ok /\ st.ok
          IN
          /\ wire' = wire \o out
          /\ room' = room - Len(out)
          /\ encoding' = IF ~wi.ok THEN encoding
                         ELSE IF ~st.ok THEN WriteAtomFail(oenc).encoding
                         ELSE WriteAtomDone(oenc).encoding
          /\ last' = IF ~wi.ok
                       THEN Outcome("write_atom", "error", wi.error, <<>>)
                     ELSE IF ~st.ok
                       THEN Outcome("write_atom", "error",
                                    WriteAtomFail(oenc).error, <<>>)
                     ELSE Outcome("write_atom", "ok", NoError, <<>>)
          /\ bufLog' = <<>>
          /\ obs' = [ObsWrite(str, out) EXCEPT !.hasLen = TRUE, !.len = len]
          /\ NoteWrite("atom", ok, str, out)
          /\ UNCHANGED bigendian

\* bytes the buffer chosen for a count of len can hold
BufferCapacity(b, len) ==
  IF b = "stack" THEN BufSize
  ELSE IF b = "heap" THEN (IF len >= 0 THEN len ELSE INT_MAX)
  ELSE 0

pl_read_atom(h, mallocOk) ==
  /\ UNCHANGED nwrites
  /\ mallocOk \/ allocFails < MaxAllocFails
  /\ allocFails' = IF get_stream_handle_ex(h).ok /\ read_int32(wire).ok
                      /\ ChooseBuffer(read_int32(wire).v, mallocOk) = "null"
                    THEN allocFails + 1 ELSE allocFails
  /\ IF ~get_stream_handle_ex(h).ok THEN BadHandle("read_atom", h)
     ELSE LET oenc == encoding
              ri == read_int32(wire)
              len == ri.v
              b == ChooseBuffer(len, mallocOk)
              \* an iteration that does not return consumes a byte or more:
              \* no more than Len(wire) - 3 iterations can be started
              st == ReadAtomLoop([pos |-> 4, out |-> <<>>, ok |-> TRUE],
                                 wire, Min(len, Len(wire) - 3))
              base == ObsRead("atom", 0)
          IN
          IF ~ri.ok
            THEN /\ wire' = Drop(wire, ri.used)
                 /\ encoding' = encoding
                 /\ last' = Outcome("read_atom", "error", ri.error, <<>>)
                 /\ bufLog' = <<>>
                 /\ obs' = [base EXCEPT !.taken = Take(wire, ri.used)]
                 /\ NoteRead("atom", FALSE)
                 /\ UNCHANGED <<room, bigendian>>
          ELSE IF b = "null"
            THEN /\ wire' = Drop(wire, ri.used)
                 /\ encoding' = encoding
                 /\ last' = Outcome("read_atom", "error",
                                    resource_error("memory"), <<>>)
                 /\ bufLog' = <<>>
                 /\ obs' = [base EXCEPT !.taken = Take(wire, ri.used),
                                        !.hasLen = TRUE, !.len = len,
                                        !.buffer = b]
                 /\ NoteRead("atom", FALSE)
                 /\ UNCHANGED <<room, bigendian>>
          ELSE LET fin == IF st.ok THEN ReadAtomFinish(oenc, b)
                          ELSE [encoding |-> ReadAtomFail(oenc, b).encoding,
                                log |-> ReadAtomFail(oenc, b).log]
               IN
               /\ wire' = Drop(wire, st.pos)
               /\ encoding' = fin.encoding
               /\ last' =
                    IF ~st.ok
                      THEN Outcome("read_atom", "error",
                                   ReadAtomFail(oenc, b).error, <<>>)
                    ELSE IF len < 0
                      \* PL_unify_atom_nchars(atom, (size_t)len, b) reads
                      \* far beyond the buffer
                      THEN Outcome("read_atom", "undefined", NoError, <<>>)
                    ELSE Outcome("read_atom", "ok", NoError, st.out)
               /\ bufLog' = (IF b = "heap" THEN <<"malloc">> ELSE <<>>)
                              \o (IF Len(st.out) > 0 THEN <<"store">>
                                  ELSE <<>>)
                              \o fin.log
               /\ obs' = [base EXCEPT !.taken = Take(wire, st.pos),
                                      !.hasLen = TRUE, !.len = len,
                                      !.buffer = b,
                                      !.capacity = BufferCapacity(b, len),
                                      !.stored = Len(st.out)]
               /\ NoteRead("atom", st.ok /\ len >= 0)
               /\ UNCHANGED <<room, bigendian>>

-----------------------------------------------------------------------------
(* Specifications *)

\* all six predicates on one stream, a few values of each kind
Next ==
  \/ /\ nwrites < MaxWrites
     /\ \E h \in Handles, t \in IntTerms({-1, 16909060}) :
           pl_write_int32(h, t)
  \/ \E h \in Handles : pl_read_int32(h)
  \/ /\ nwrites < MaxWrites
     /\ \E h \in Handles, t \in FloatTerms({<<1, 2, 3, 4, 5, 6, 7, 255>>,
                                            <<0, 0, 0, 0, 0, 0, 240, 63>>}) :
           pl_write_float(h, t)
  \/ \E h \in Handles : pl_read_float(h)
  \/ /\ nwrites < MaxWrites
     /\ \E h \in Handles, t \in AtomTerms({<<65>>, <<233, 0>>}) :
           pl_write_atom(h, t)
  \/ \E h \in Handles, mallocOk \in BOOLEAN : pl_read_atom(h, mallocOk)

Spec == Init /\ [][Next]_vars

\* the integer predicates over the sample of 32-bit integers
InitInt == InitWith({"ENC_OCTET"}, {FALSE}, {3, 4, 7, 12}, ForeignInts)

NextInt ==
  \/ /\ nwrites < MaxWrites
     /\ \E h \in Handles, t \in IntTerms(Int32s) : pl_write_int32(h, t)
  \/ \E h \in Handles : pl_read_int32(h)

SpecInt == InitInt /\ [][NextInt]_vars

\* the float predicates over the sample of bit patterns, both byte orders
InitFloat ==
  InitWith({"ENC_OCTET"}, BOOLEAN, {5, 8, 24},
           {<<1, 2, 3>>, <<255, 255, 255, 255, 255, 255, 255, 255, 255>>})

NextFloat ==
  \/ /\ nwrites < MaxWrites
     /\ \E h \in Handles, t \in FloatTerms(Doubles) : pl_write_float(h, t)
  \/ \E h \in Handles : pl_read_float(h)

SpecFloat == InitFloat /\ [][NextFloat]_vars

\* the atom predicates over short and long texts and foreign data
InitAtom ==
  InitWith({"ENC_ISO_LATIN_1", "ENC_UTF8"}, {FALSE}, {2, 5, 1030},
           ForeignAtoms \cup {<<0, 0, 4, 0>> \o Rep(BufSize, 98)})

NextAtom ==
  \/ /\ nwrites < MaxAtomWrites
     /\ \E h \in Handles,
           t \in AtomTerms(ShortTexts \cup LongTexts \cup WideTexts) :
           pl_write_atom(h, t)
  \/ \E h \in Handles, mallocOk \in BOOLEAN : pl_read_atom(h, mallocOk)

SpecAtom == InitAtom /\ [][NextAtom]_vars

TypeOK ==
  /\ encoding \in Encodings
  /\ room >= 0
  /\ \A k \in 1..Len(wire) : wire[k] \in 0..255

-----------------------------------------------------------------------------
(* Properties *)

\* the last call reached the stream (its stream argument was a stream)
OnStream(op) == last.op = op /\ last.error.kind # "type_error"

\* C1: whatever the outcome of write_atom or read_atom (success, TypeError,
\* IOError on the length prefix, IOError in the middle of the characters,
\* ResourceError), the stream's encoding when the call returns is the one it
\* had when the call started, after any sequence of such calls.
C1_EncodingRestored == [][encoding' = encoding]_vars

\* read_atom failed in the middle of the characters of a stream whose
\* encoding is not UTF-8
C1_Witness ==
  /\ last.op = "read_atom"
  /\ last.error = io_error("read")
  /\ obs.hasLen /\ obs.stored > 0
  /\ encoding = "ENC_ISO_LATIN_1"

\* C2: values of mixed kinds written successfully, in order, to an initially
\* empty stream are returned by the matching reads in the same order, each
\* read consuming exactly the bytes its write produced, and the stream is
\* exhausted after the last read (a read that fails for lack of memory
\* excepted).
C2_MixedRoundTrip ==
  /\ (obs.matched /\ last.error.kind # "resource_error") =>
        /\ last.status = "ok"
        /\ last.value = obs.expValue
        /\ Len(obs.taken) = obs.expBytes
  /\ (aligned /\ pending = <<>>) => wire = <<>>

\* an integer was read back while the atom written after it is still unread
C2_Witness ==
  /\ last.op = "read_int32" /\ last.status = "ok" /\ obs.matched
  /\ last.value = <<-1>>
  /\ Len(pending) = 1
  /\ Head(pending).kind = "atom" /\ Head(pending).value = <<233, 0>>

\* C3: read_int32 on the 4 bytes written by write_int32(i) succeeds and
\* returns i, for every 32-bit i; the top bit of the first byte is the sign.
C3_Int32RoundTrip ==
  (last.op = "read_int32" /\ obs.matched) =>
     /\ last.status = "ok"
     /\ last.value = obs.expValue
     /\ (last.value[1] < 0) <=> (obs.taken[1] >= 128)

C3_Witness ==
  /\ last.op = "read_int32" /\ obs.matched /\ last.status = "ok"
  /\ last.value = <<INT_MIN>>

\* bits k..k+7 of the 32-bit two's-complement representation of i
TwosComplementByte(i, k) ==
  IF i >= 0 THEN (i \div (2^k)) % 256
  ELSE IF k = 24 THEN 128 + ((i - INT_MIN) \div (2^k))
  ELSE ((i - INT_MIN) \div (2^k)) % 256

\* C4: write_int32(i) writes exactly 4 bytes, most significant first: bits
\* 24-31, 16-23, 8-15, 0-7 of the two's-complement representation of i;
\* 0x01020304 gives 01 02 03 04 and -1 gives FF FF FF FF.
C4_Int32BigEndian ==
  (last.op = "write_int32" /\ last.status = "ok") =>
     LET i == obs.arg[1] IN
     /\ obs.produced = <<TwosComplementByte(i, 24), TwosComplementByte(i, 16),
                         TwosComplementByte(i, 8), TwosComplementByte(i, 0)>>
     /\ (i = 16909060 => obs.produced = <<1, 2, 3, 4>>)
     /\ (i = -1 => obs.produced = <<255, 255, 255, 255>>)

C4_Witness ==
  /\ last.op = "write_int32" /\ last.status = "ok"
  /\ obs.arg = <<16909060>>
  /\ obs.produced = <<1, 2, 3, 4>>

\* C5: read_float on the 8 bytes written by write_float rebuilds the same 8
\* bytes in memory, on a little-endian and on a big-endian build, and a byte
\* 0xFF is not taken for the end of the stream.
C5_FloatRoundTrip ==
  /\ (last.op = "read_float" /\ obs.matched) =>
        /\ last.status = "ok"
        /\ last.value = obs.expValue
        /\ Len(obs.taken) = 8
  /\ (OnStream("read_float") /\ obs.avail >= 8) => last.status = "ok"

C5_Witness ==
  /\ bigendian
  /\ last.op = "read_float" /\ obs.matched /\ last.status = "ok"
  /\ last.value = <<1, 2, 3, 4, 5, 6, 7, 255>>
  /\ obs.taken = <<255, 7, 6, 5, 4, 3, 2, 1>>

\* C6: read_atom on the output of write_atom returns the text that was
\* written (same length, same characters), for the lengths 0, 1, 1023, 1024
\* and 1025 (a read that fails for lack of memory excepted).
C6_AtomRoundTrip ==
  (last.op = "read_atom" /\ obs.matched
      /\ last.error.kind # "resource_error") =>
     /\ last.status = "ok"
     /\ Len(last.value) = Len(obs.expValue)
     /\ last.value = obs.expValue

C6_Witness ==
  /\ last.op = "read_atom" /\ obs.matched /\ last.status = "ok"
  /\ Len(last.value) = BufSize
  /\ obs.buffer = "heap"

\* the stream holds the length n as 4 bytes, most significant first
LengthPrefix(p, n) ==
  /\ Len(p) >= 4
  /\ p[1] = 0 /\ p[2] = n \div 65536
  /\ p[3] = (n \div 256) % 256 /\ p[4] = n % 256

\* C7 as stated: write_atom on n characters writes the 4-byte big-endian n
\* followed by exactly n bytes, one byte per character.
C7_OneBytePerChar ==
  (last.op = "write_atom" /\ last.status = "ok") =>
     /\ Len(obs.produced) = 4 + Len(obs.arg)
     /\ LengthPrefix(obs.produced, Len(obs.arg))
     /\ SubSeq(obs.produced, 5, Len(obs.produced)) = obs.arg

\* C7, amended: write_atom on n characters writes the 4-byte big-endian n
\* followed by the UTF-8 encoding of each character in order: one byte for a
\* character below 128, two bytes for a character in 128..255; 4 + n bytes
\* when every character is below 128, 00 00 00 00 alone for the empty text.
C7_Utf8PerChar ==
  (last.op = "write_atom" /\ last.status = "ok") =>
     LET t == obs.arg
         p == obs.produced
         n == Len(t)
         hi == {k \in 1..n : t[k] >= 128}
         at(k) == 4 + k + Cardinality({j \in 1..(k - 1) : t[j] >= 128})
     IN
     /\ Len(p) = 4 + n + Cardinality(hi)
     /\ LengthPrefix(p, n)
     /\ (n = 0 => p = <<0, 0, 0, 0>>)
     /\ (hi = {} => SubSeq(p, 5, Len(p)) = t)
     /\ (hi # {} =>
           \A k \in 1..n :
              IF t[k] < 128 THEN p[at(k)] = t[k]
              ELSE /\ p[at(k)] = 192 + (t[k] \div 64)
                   /\ p[at(k) + 1] = 128 + (t[k] % 64))

C7_Witness ==
  /\ last.op = "write_atom" /\ last.status = "ok"
  /\ obs.arg = <<233, 65>>
  /\ obs.produced = <<0, 0, 0, 2, 195, 169, 65>>

\* C8: read_int32 with k < 4 bytes left fails with io_error("read"), yields
\* no integer and consumes the k bytes and no more; with 4 bytes or more it
\* succeeds and consumes exactly 4.
C8_ShortRead ==
  OnStream("read_int32") =>
     IF obs.avail < 4
       THEN /\ last.status = "error"
            /\ last.error = io_error("read")
            /\ last.value = <<>>
            /\ Len(obs.taken) = obs.avail
            /\ wire = <<>>
       ELSE /\ last.status = "ok"
            /\ Len(last.value) = 1
            /\ Len(obs.taken) = 4
            /\ Len(wire) = obs.avail - 4

C8_Witness ==
  /\ OnStream("read_int32")
  /\ obs.avail = 3
  /\ last.error = io_error("read")

\* number of occurrences of e in log
Occurrences(log, e) == Cardinality({k \in 1..Len(log) : log[k] = e})

\* C9: in read_atom a malloc'ed buffer is freed exactly once before the call
\* returns, on the end-of-stream exit and on success, after its last use;
\* the stack buffer is never freed.
C9_BufferReleased ==
  OnStream("read_atom") =>
     /\ Occurrences(bufLog, "malloc") = (IF obs.buffer = "heap" THEN 1 ELSE 0)
     /\ Occurrences(bufLog, "free") = Occurrences(bufLog, "malloc")
     /\ obs.buffer = "heap" =>
           /\ bufLog[1] = "malloc"
           /\ bufLog[Len(bufLog)] = "free"
     /\ last.status = "ok" => Occurrences(bufLog, "unify") = 1

C9_Witness ==
  /\ OnStream("read_atom")
  /\ obs.buffer = "heap"
  /\ last.error = io_error("read")
  /\ bufLog = <<"malloc", "store", "free">>

\* C10 as stated: for every length prefix, negative ones included, the stack
\* buffer is used when the count is below 1024 and a heap allocation
\* otherwise; resource_error(memory) only when that allocation fails, never
\* for a count below 1024; the buffer holds all characters stored into it.
C10_BufferChoice ==
  (OnStream("read_atom") /\ obs.hasLen) =>
     /\ obs.len < BufSize => obs.buffer = "stack"
     /\ obs.len >= BufSize => obs.buffer \in {"heap", "null"}
     /\ last.error.kind = "resource_error" =>
           (obs.buffer = "null" /\ obs.len >= BufSize)
     /\ obs.stored <= obs.capacity

====
